---- MODULE Spec2Model ----
(***************************************************************************)
(* Drain simulator, ticket resolution and the request handlers of          *)
(* src/app.py that share active_drains and resolved_tickets.               *)
(*                                                                         *)
(* Every request handler runs on its own thread.  A step of a thread is    *)
(* one upstream fetch or one critical section (a `with lock:` block).      *)
(* The wall clock (datetime.now()) is the variable now, in whole minutes.  *)
(*                                                                         *)
(* The ticket reconciler (tickets_match) and the dispatch scheduler        *)
(* (api_optimizer_compute) are modelled as runs over inputs drawn from     *)
(* bounded sets: request holds the inputs, work the locals and the result. *)
(* Volumes are whole millilitres, scheduler times whole seconds.           *)
(***************************************************************************)
EXTENDS Integers, Sequences, FiniteSets, TLC

\* ---------------------------------------------------------------- bounds
MaxTime == 2          \* the clock stops advancing after this many minutes
MaxLevel == 30        \* upstream reports a cauldron as empty or at this level

\* ------------------------------------------------------- static metadata
Threads == {"h1", "h2"}
NoThread == "nobody"

\* factory_static_data['cauldrons'], in list order
CauldronOrder == <<"c1", "c2">>
Cauldrons == {CauldronOrder[i] : i \in 1..Len(CauldronOrder)}
NoId == "none"             \* a request without a cauldron id
BadId == "cX"              \* an id that is not in the static data
\* drain_rate_per_min of the static records
natural_drain(c) == IF c = "c1" THEN 5 ELSE 20

\* /api/Tickets as delivered upstream (k1 is delivered twice)
Tickets == << [id |-> "k1", cauldron |-> "c1", status |-> "open"],
              [id |-> "k2", cauldron |-> "c2", status |-> "open"],
              [id |-> "k1", cauldron |-> "c1", status |-> "open"],
              [id |-> "k3", cauldron |-> "c1", status |-> "completed"] >>
TicketIds == {Tickets[i].id : i \in 1..Len(Tickets)}

Levels == {0, MaxLevel}

NoDrain == [start_time |-> -1, initial_level |-> 0, drain_rate |-> 0]

Max(a, b) == IF a >= b THEN a ELSE b

VARIABLES
    now,                    \* datetime.now(), minutes
    active_drains,          \* cauldron id -> drain record, NoDrain = absent
    resolved_tickets,       \* set of ticket ids
    resolved_tickets_lock,  \* the thread holding the lock, or NoThread
    drains_lock,            \* the thread holding the lock, or NoThread
    th,                     \* per thread: the locals of the handler it runs
    response,               \* what the last step returned to its caller, if anything
    request,                \* what the upstream and the static data deliver to one
                            \* run of tickets_match or of api_optimizer_compute
    work                    \* the locals and the result of that run

vars == <<now, active_drains, resolved_tickets, resolved_tickets_lock, drains_lock,
          th, response, request, work>>

\* the variables of a run of tickets_match or api_optimizer_compute, and
\* drains_lock, which is free before and after every step that takes a
\* `with drains_lock` block as a whole
run == <<request, work, drains_lock>>
\* no run of tickets_match or api_optimizer_compute is looked at
NoRequest == [kind |-> "none"]
NoWork == [pc |-> "none"]

shared == <<active_drains, resolved_tickets, resolved_tickets_lock>>

\* ------------------------------------------------------- drain arithmetic
\* elapsed * drain_rate
Drained(d, t) == (t - d.start_time) * d.drain_rate

\* max(0, initial_level - drained)
Remaining(d, t) == Max(0, d.initial_level - Drained(d, t))

\* int(drain_progress)
Progress(d, t) ==
    IF d.initial_level > 0 THEN (Drained(d, t) * 100) \div d.initial_level ELSE 100

\* the 10% milestone log: drain_info is a dict, hasattr() is false and
\* setattr() raises AttributeError
MilestoneLogRaises(d, t) == Progress(d, t) % 10 = 0 /\ Progress(d, t) > 0

\* max(15.0, natural_drain)
CourierRate(c) == Max(15, natural_drain(c))

\* the record _dispatch_courier stores
NewDrain(c, level, t) ==
    [start_time |-> t, initial_level |-> level, drain_rate |-> CourierRate(c)]

\* ------------------------------------------------------------- tickets
IsResolvedApi(tk) ==
    tk.status \in {"resolved", "completed", "done", "closed", "finished"}

\* ids of seen_tickets after the first n tickets, in insertion order
RECURSIVE SeenTickets(_, _)
SeenTickets(n, resolved) ==
    IF n = 0 THEN << >>
    ELSE LET prev == SeenTickets(n - 1, resolved)
             tk == Tickets[n]
         IN  IF /\ \A i \in 1..Len(prev) : prev[i] # tk.id
                /\ ~IsResolvedApi(tk)
                /\ tk.id \notin resolved
             THEN Append(prev, tk.id)
             ELSE prev

\* the ids _resolve_tickets_for_cauldron adds for a cauldron
TicketsOf(c) == {Tickets[i].id : i \in {j \in 1..Len(Tickets) : Tickets[j].cauldron = c}}

\* --------------------------------------------------------------- state
\* a thread that runs no handler
Idle == [pc |-> "idle", op |-> "none", cid |-> NoId, idx |-> 0,
         current_level |-> 0, is_draining |-> FALSE, issued |-> 0]

NoResponse == [op |-> "none", cid |-> NoId, status |-> "none",
               current_level |-> 0, is_draining |-> FALSE, ids |-> << >>]

Init ==
    /\ now = 0
    /\ active_drains = [c \in Cauldrons |-> NoDrain]
    /\ resolved_tickets = {}
    /\ resolved_tickets_lock = NoThread
    /\ drains_lock = NoThread
    /\ th = [t \in Threads |-> Idle]
    /\ response = NoResponse
    /\ request = NoRequest
    /\ work = NoWork

\* the handler o(c) of thread t returns
Finish(t, o, c, r, level, draining, ids) ==
    /\ th' = [th EXCEPT ![t] = Idle]
    /\ response' = [op |-> o, cid |-> c, status |-> r,
                    current_level |-> level, is_draining |-> draining, ids |-> ids]

\* the handler of thread t fails or returns without a level
FinishPlain(t, r) ==
    Finish(t, th[t].op, th[t].cid, r, 0, FALSE, << >>)

\* the handler of thread t goes on with locals l
Continue(t, l) ==
    /\ th' = [th EXCEPT ![t] = l]
    /\ response' = NoResponse

\* the error a failed cauldron_status() turns into for handler o
StatusError(o) == IF o = "dispatch" THEN "failed_no_live" ELSE "status_error"

\* get_cauldron_levels() inside cauldron_status(): the upstream fetch fails,
\* or delivers level v for the cauldron the caller looks at
FetchLevels(t, o, c) ==
    \E ok \in BOOLEAN :
        IF ~ok
        THEN Finish(t, o, c, StatusError(o), 0, FALSE, << >>)
        ELSE \E v \in Levels :
             Continue(t, [pc |-> "status_loop", op |-> o, cid |-> c, idx |-> 1,
                          current_level |-> v, is_draining |-> FALSE,
                          issued |-> IF o = "dispatch" THEN now ELSE 0])

\* _dispatch_courier up to and including the fetch of _get_status
BeginDispatch(t, c) ==
    /\ th[t].pc = "idle"
    /\ IF c = NoId
       THEN Finish(t, "dispatch", c, "failed_no_id", 0, FALSE, << >>)
       ELSE IF c \notin Cauldrons
       THEN Finish(t, "dispatch", c, "failed_invalid", 0, FALSE, << >>)
       ELSE FetchLevels(t, "dispatch", c)
    /\ UNCHANGED <<run, now, shared>>

\* cauldron_status as the status endpoint; the caller looks at cauldron c
BeginStatus(t, c) ==
    /\ th[t].pc = "idle"
    /\ FetchLevels(t, "status", c)
    /\ UNCHANGED <<run, now, shared>>

\* api_optimizer_compute: its call of cauldron_status
BeginOptimize(t) ==
    /\ th[t].pc = "idle"
    /\ FetchLevels(t, "optimize", NoId)
    /\ UNCHANGED <<run, now, shared>>

\* what follows the last cauldron of the status loop
AfterStatusLoop(t, level, draining) ==
    IF th[t].op = "dispatch"
    THEN Continue(t, [th[t] EXCEPT !.pc = "annot_check", !.idx = 1,
                                   !.current_level = level, !.is_draining = draining])
    ELSE Finish(t, th[t].op, th[t].cid, "status_ok", level, draining, << >>)

\* StatusStep without `del active_drains[cauldron_id]`: a finished drain is
\* reported as level 0 and its entry stays
StatusStep_KeepsEntry(t) ==
    /\ th[t].pc = "status_loop"
    /\ LET c == CauldronOrder[th[t].idx]
           d == active_drains[c]
           new_level == Remaining(d, now)
           raises == d # NoDrain /\ new_level > 0 /\ MilestoneLogRaises(d, now)
           level == IF c # th[t].cid \/ d = NoDrain THEN th[t].current_level ELSE new_level
           draining == IF c # th[t].cid \/ th[t].op = "dispatch" THEN th[t].is_draining
                       ELSE d # NoDrain /\ new_level > 0
       IN  /\ active_drains' = active_drains
           /\ IF raises
              THEN FinishPlain(t, StatusError(th[t].op))
              ELSE IF th[t].idx < Len(CauldronOrder)
              THEN Continue(t, [th[t] EXCEPT !.idx = @ + 1, !.current_level = level,
                                             !.is_draining = draining])
              ELSE AfterStatusLoop(t, level, draining)
    /\ UNCHANGED <<run, now, resolved_tickets, resolved_tickets_lock>>

\* the body of the `with drains_lock` block of cauldron_status for the
\* cauldron at position idx, and what the handler does up to the next block
StatusBody(t) ==
    LET c == CauldronOrder[th[t].idx]
        d == active_drains[c]
        new_level == Remaining(d, now)
        raises == d # NoDrain /\ new_level > 0 /\ MilestoneLogRaises(d, now)
        level == IF c # th[t].cid \/ d = NoDrain THEN th[t].current_level ELSE new_level
        \* _dispatch_courier reads current_level only
        draining == IF c # th[t].cid \/ th[t].op = "dispatch" THEN th[t].is_draining
                    ELSE d # NoDrain /\ new_level > 0
    IN  /\ active_drains' =
              IF d # NoDrain /\ new_level <= 0
              THEN [active_drains EXCEPT ![c] = NoDrain]
              ELSE active_drains
        /\ IF raises
           THEN FinishPlain(t, StatusError(th[t].op))
           ELSE IF th[t].idx < Len(CauldronOrder)
           THEN Continue(t, [th[t] EXCEPT !.idx = @ + 1, !.current_level = level,
                                          !.is_draining = draining])
           ELSE AfterStatusLoop(t, level, draining)

\* one iteration of the loop of cauldron_status: the `with drains_lock` block
\* for the cauldron at position idx
StatusStep(t) ==
    /\ th[t].pc = "status_loop"
    /\ StatusBody(t)
    /\ UNCHANGED <<run, now, resolved_tickets, resolved_tickets_lock>>

\* positions idx..n of the annotation loop of _get_status whose cauldron has
\* an entry in active_drains
Annotated(t) ==
    {i \in th[t].idx..Len(CauldronOrder) : active_drains[CauldronOrder[i]] # NoDrain}

\* AnnotCheck without `if current_level <= 0` in _dispatch_courier
AnnotCheck_NoEmptyCheck(t) ==
    /\ th[t].pc = "annot_check"
    /\ IF Annotated(t) # {}
       THEN Continue(t, [th[t] EXCEPT !.pc = "annot_read",
                             !.idx = CHOOSE i \in Annotated(t) : \A j \in Annotated(t) : i <= j])
       ELSE Continue(t, [th[t] EXCEPT !.pc = "lock", !.idx = 0])
    /\ UNCHANGED <<run, now, shared>>

\* _get_status: `if cid in active_drains`, read without the lock.  Iterations
\* that find no entry touch nothing and are taken together with the next one
\* that finds one; after the last, _dispatch_courier looks at current_level.
AnnotCheck(t) ==
    /\ th[t].pc = "annot_check"
    /\ IF Annotated(t) # {}
       THEN Continue(t, [th[t] EXCEPT !.pc = "annot_read",
                             !.idx = CHOOSE i \in Annotated(t) : \A j \in Annotated(t) : i <= j])
       ELSE IF th[t].current_level <= 0
       THEN FinishPlain(t, "already_empty")
       ELSE Continue(t, [th[t] EXCEPT !.pc = "lock", !.idx = 0])
    /\ UNCHANGED <<run, now, shared>>

\* _get_status: `active_drains[cid]`, a KeyError when the entry is gone
AnnotRead(t) ==
    /\ th[t].pc = "annot_read"
    /\ IF active_drains[CauldronOrder[th[t].idx]] # NoDrain
       THEN Continue(t, [th[t] EXCEPT !.pc = "annot_check", !.idx = @ + 1])
       ELSE FinishPlain(t, "failed_no_live")
    /\ UNCHANGED <<run, now, shared>>

\* DispatchLocked without `if cauldron_id in active_drains`: every command
\* stores a new record
DispatchLocked_NoCheck(t) ==
    /\ th[t].pc = "lock"
    /\ active_drains' =
           [active_drains EXCEPT ![th[t].cid] = NewDrain(th[t].cid, th[t].current_level, now)]
    /\ Continue(t, [th[t] EXCEPT !.pc = "resolve", !.is_draining = FALSE])
    /\ UNCHANGED <<run, now, resolved_tickets, resolved_tickets_lock>>

\* DispatchLocked whose already-draining branch restarts the clock of the drain
DispatchLocked_Restart(t) ==
    /\ th[t].pc = "lock"
    /\ LET c == th[t].cid
           d == active_drains[c]
       IN  IF d # NoDrain
           THEN /\ Finish(t, "dispatch", c, "already_draining",
                          Remaining(d, now), FALSE, << >>)
                /\ active_drains' = [active_drains EXCEPT ![c].start_time = now]
           ELSE /\ active_drains' =
                      [active_drains EXCEPT ![c] = NewDrain(c, th[t].current_level, now)]
                /\ Continue(t, [th[t] EXCEPT !.pc = "resolve", !.is_draining = FALSE])
    /\ UNCHANGED <<run, now, resolved_tickets, resolved_tickets_lock>>

\* the body of the `with drains_lock` block of _dispatch_courier
DispatchBody(t) ==
    LET c == th[t].cid
        d == active_drains[c]
    IN  IF d # NoDrain
        THEN /\ Finish(t, "dispatch", c, "already_draining",
                       Remaining(d, now), FALSE, << >>)
             /\ UNCHANGED active_drains
        ELSE /\ active_drains' =
                   [active_drains EXCEPT ![c] = NewDrain(c, th[t].current_level, now)]
             /\ Continue(t, [th[t] EXCEPT !.pc = "resolve", !.is_draining = FALSE])

\* _dispatch_courier: the `with drains_lock` block
DispatchLocked(t) ==
    /\ th[t].pc = "lock"
    /\ DispatchBody(t)
    /\ UNCHANGED <<run, now, resolved_tickets, resolved_tickets_lock>>

\* the result of an accepted dispatch
Dispatched(t) ==
    Finish(t, "dispatch", th[t].cid, "dispatched",
           th[t].current_level, FALSE, << >>)

\* _resolve_tickets_for_cauldron: the ticket fetch fails, nothing is resolved
ResolveFetchFails(t) ==
    /\ th[t].pc = "resolve"
    /\ Dispatched(t)
    /\ UNCHANGED <<run, now, shared>>

\* _resolve_tickets_for_cauldron: tickets fetched, resolved_tickets_lock taken
ResolveAcquire(t) ==
    /\ th[t].pc = "resolve"
    /\ resolved_tickets_lock = NoThread
    /\ resolved_tickets_lock' = t
    /\ Continue(t, [th[t] EXCEPT !.pc = "resolving"])
    /\ UNCHANGED <<run, now, active_drains, resolved_tickets>>

\* ResolveBody that replaces resolved_tickets by the tickets of the cauldron
ResolveBody_Replace(t) ==
    /\ th[t].pc = "resolving"
    /\ resolved_tickets' = TicketsOf(th[t].cid)
    /\ resolved_tickets_lock' = NoThread
    /\ Dispatched(t)
    /\ UNCHANGED <<run, now, active_drains>>

\* _resolve_tickets_for_cauldron: the loop under the lock, then the release
ResolveBody(t) ==
    /\ th[t].pc = "resolving"
    /\ resolved_tickets' = resolved_tickets \cup TicketsOf(th[t].cid)
    /\ resolved_tickets_lock' = NoThread
    /\ Dispatched(t)
    /\ UNCHANGED <<run, now, active_drains>>

\* tickets_match: the ticket fetch fails
MatchFetchFails(t) ==
    /\ th[t].pc = "idle"
    /\ Finish(t, "match", NoId, "match_error", 0, FALSE, << >>)
    /\ UNCHANGED <<run, now, shared>>

\* tickets_match: filter under resolved_tickets_lock, then the data fetch
TicketsMatch(t) ==
    /\ th[t].pc = "idle"
    /\ resolved_tickets_lock = NoThread
    /\ \E ok \in BOOLEAN :
         IF ok
         THEN Finish(t, "match", NoId, "match_ok", 0, FALSE,
                     SeenTickets(Len(Tickets), resolved_tickets))
         ELSE Finish(t, "match", NoId, "match_error", 0, FALSE, << >>)
    /\ UNCHANGED <<run, now, shared>>

\* reset_drains: the `with drains_lock` block
ResetDrains(t) ==
    /\ th[t].pc = "idle"
    /\ active_drains' = [c \in Cauldrons |-> NoDrain]
    /\ Continue(t, [Idle EXCEPT !.pc = "reset_tickets", !.op = "reset"])
    /\ UNCHANGED <<run, now, resolved_tickets, resolved_tickets_lock>>

\* reset_drains: the `with resolved_tickets_lock` block
ResetTickets(t) ==
    /\ th[t].pc = "reset_tickets"
    /\ resolved_tickets_lock = NoThread
    /\ resolved_tickets' = {}
    /\ FinishPlain(t, "reset_ok")
    /\ UNCHANGED <<run, now, active_drains, resolved_tickets_lock>>

\* a minute passes
Tick ==
    /\ now < MaxTime
    /\ now' = now + 1
    /\ response' = NoResponse
    /\ UNCHANGED <<run, shared, th>>

Next ==
    \/ Tick
    \/ \E t \in Threads :
        \/ \E c \in Cauldrons \cup {NoId, BadId} : BeginDispatch(t, c)
        \/ \E c \in Cauldrons : BeginStatus(t, c)
        \/ BeginOptimize(t)
        \/ StatusStep(t)
        \/ AnnotCheck(t)
        \/ AnnotRead(t)
        \/ DispatchLocked(t)
        \/ ResolveFetchFails(t)
        \/ ResolveAcquire(t)
        \/ ResolveBody(t)
        \/ MatchFetchFails(t)
        \/ TicketsMatch(t)
        \/ ResetDrains(t)
        \/ ResetTickets(t)

Spec == Init /\ [][Next]_vars

\* ------------------------------------------------ the dashboard keeps polling
\* The thread that serves the commands of the agent, and the thread that
\* serves the status endpoint the dashboard polls.
Commander == "h1"
Poller == "h2"

\* The `with drains_lock` block of _dispatch_courier for commands whose drain
\* ends before the clock of the model stops.
LiveDispatchLocked ==
    /\ DispatchLocked(Commander)
    /\ \A c \in Cauldrons : Remaining(active_drains'[c], MaxTime) = 0

\* a status read of the dashboard whose upstream fetch succeeds
StatusFetched ==
    \E c \in Cauldrons : BeginStatus(Poller, c) /\ th'[Poller].pc = "status_loop"

LiveNext ==
    \/ Tick
    \/ \E c \in Cauldrons : BeginDispatch(Commander, c)
    \/ StatusStep(Commander)
    \/ AnnotCheck(Commander)
    \/ AnnotRead(Commander)
    \/ LiveDispatchLocked
    \/ ResolveFetchFails(Commander)
    \/ ResolveAcquire(Commander)
    \/ ResolveBody(Commander)
    \/ ResetDrains(Commander)
    \/ ResetTickets(Commander)
    \/ \E c \in Cauldrons : BeginStatus(Poller, c)
    \/ StatusStep(Poller)

\* Time passes, the dashboard keeps polling and its fetches keep succeeding,
\* and a status read that has started runs through its loop.
LiveSpec ==
    /\ Init
    /\ [][LiveNext]_vars
    /\ WF_vars(Tick)
    /\ WF_vars(StatusFetched)
    /\ WF_vars(StatusStep(Poller))

\* ------------------------------------------------------ ticket reconciler
MaxTickets == 2       \* the upstream delivers at most this many ticket records
MaxRuns == 2          \* runs of tickets_match over one snapshot

\* a float volume is a whole number of millilitres
Litre == 1000
\* a timestamp is a whole number of minutes, ts.date() the day it lies in
MinutesPerDay == 1440
MAX_DRAIN_DURATION_MIN == 10
MAX_DRAIN_AMOUNT_L == 110

DayOf(ts) == ts \div MinutesPerDay

\* an optional value: None, or one value
None == << >>
Some(x) == <<x>>

Abs(x) == IF x < 0 THEN -x ELSE x

\* round(x, 2): to the nearest hundredth of a litre (a tie, which no input
\* below produces, to the even one)
Round2(x) ==
    LET q == Abs(x) \div 10
        r == Abs(x) % 10
        m == IF r > 5 \/ (r = 5 /\ q % 2 = 1) THEN (q + 1) * 10 ELSE q * 10
    IN  IF x < 0 THEN -m ELSE m

\* fill_rate_per_min of the static data, per cauldron
fill_rate_per_min(c) == IF c = "c1" THEN 0 ELSE 250

\* list.sort(key=timestamp) is stable: x goes behind the samples not later than it
InsertSample(x, s) ==
    LET k == Cardinality({i \in 1..Len(s) : s[i].t <= x.t})
    IN  SubSeq(s, 1, k) \o <<x>> \o SubSeq(s, k + 1, Len(s))

RECURSIVE SortSeries(_)
SortSeries(s) ==
    IF s = << >> THEN << >>
    ELSE InsertSample(s[Len(s)], SortSeries(SubSeq(s, 1, Len(s) - 1)))

\* the inner loop of the drain detection: extends the event that started at
\* sample `start` over the samples from position j on; yields the position
\* after the event and the end of the event
RECURSIVE ExtendDrain(_, _, _, _, _, _, _)
ExtendDrain(series, start, j, end_t, end_v, consecutive_increases, consecutive_stable) ==
    LET stop == [j |-> j, end_t |-> end_t, end_v |-> end_v]
    IN  IF j > Len(series) THEN stop
        ELSE LET prev_v == series[j - 1].v
                 curr_v == series[j].v
                 curr_t == series[j].t
                 duration_so_far == curr_t - start.t
                 drained_so_far == start.v - curr_v
             IN  IF \/ duration_so_far > MAX_DRAIN_DURATION_MIN
                    \/ drained_so_far > MAX_DRAIN_AMOUNT_L * Litre
                 THEN stop
                 ELSE IF curr_v < prev_v - Litre \div 2
                 THEN ExtendDrain(series, start, j + 1, curr_t, curr_v, 0, 0)
                 ELSE IF curr_v > prev_v /\ consecutive_increases < 2
                 THEN ExtendDrain(series, start, j + 1, end_t, end_v,
                                  consecutive_increases + 1, 0)
                 ELSE IF Abs(curr_v - prev_v) <= Litre \div 2 /\ consecutive_stable < 3
                 THEN ExtendDrain(series, start, j + 1, end_t, end_v,
                                  consecutive_increases, consecutive_stable + 1)
                 ELSE stop

\* the outer loop of the drain detection from position i on: the drain
\* events of one cauldron in the order they are recorded
RECURSIVE DrainEvents(_, _, _)
DrainEvents(series, fill_rate, i) ==
    IF i >= Len(series) THEN << >>
    ELSE IF series[i + 1].v < series[i].v
    THEN LET x == ExtendDrain(series, series[i], i + 2,
                              series[i + 1].t, series[i + 1].v, 0, 0)
             duration_min == x.end_t - series[i].t
             drained == Max(0, series[i].v - x.end_v)
             event == [start |-> series[i].t, end |-> x.end_t,
                       start_v |-> series[i].v, end_v |-> x.end_v,
                       duration_min |-> duration_min,
                       drained |-> Round2(drained + fill_rate * duration_min)]
         IN  (IF drained > Litre THEN <<event>> ELSE << >>)
                 \o DrainEvents(series, fill_rate, x.j)
    ELSE DrainEvents(series, fill_rate, i + 1)

\* drains_by_cauldron_day, the days of a cauldron laid end to end
DrainsByCauldron(series_map) ==
    [c \in Cauldrons |-> DrainEvents(series_map[c], fill_rate_per_min(c), 1)]

\* the events of one day, in the order they were recorded
DayDrains(events, day) ==
    SelectSeq(events, LAMBDA e : DayOf(e.start) = day)

\* `(status or state or resolved or '').lower()` on a record that has no
\* status and resolved = True calls lower() on a bool
StatusRaises(tk) == tk.status = "" /\ tk.resolved

\* is_resolved_api of a record with a resolved flag
IsResolved(tk) == IsResolvedApi(tk) \/ tk.resolved

\* seen_tickets.values(): first record of each id among the records that are
\* neither resolved upstream nor resolved locally
RECURSIVE RemainingTickets(_, _)
RemainingTickets(tks, resolved) ==
    IF tks = << >> THEN << >>
    ELSE LET front == RemainingTickets(SubSeq(tks, 1, Len(tks) - 1), resolved)
             tk == tks[Len(tks)]
         IN  IF /\ \A i \in 1..Len(front) : front[i].id # tk.id
                /\ ~IsResolved(tk)
                /\ tk.id \notin resolved
             THEN Append(front, tk)
             ELSE front

\* min(day_drains, key=|drained - amount|): the first of the closest
BestDrain(day_drains, amount) ==
    LET far(i) == Abs(day_drains[i].drained - amount)
        best == CHOOSE i \in 1..Len(day_drains) :
                    /\ \A j \in 1..Len(day_drains) : far(i) <= far(j)
                    /\ \A j \in 1..(i - 1) : far(j) > far(i)
    IN  day_drains[best]

\* the fallback: the decreases between consecutive samples of the day
RECURSIVE SumDecreases(_, _, _)
SumDecreases(series, day, i) ==
    IF i >= Len(series) THEN 0
    ELSE (IF /\ DayOf(series[i].t) = day
             /\ DayOf(series[i + 1].t) = day
             /\ series[i + 1].v < series[i].v
          THEN series[i].v - series[i + 1].v
          ELSE 0) + SumDecreases(series, day, i + 1)

\* ExceedsBoth with either threshold sufficing
ExceedsBoth_Either(diff, amount) ==
    Abs(diff) > 50 * Litre \/ 2 * Abs(diff) > Max(Litre, amount)

\* the threshold test on the rounded difference
ExceedsBoth(diff, amount) ==
    Abs(diff) > 50 * Litre /\ 2 * Abs(diff) > Max(Litre, amount)

\* one iteration of the matching loop: the result for ticket tk
MatchTicket(tk, series_map, drains) ==
    LET day_drains == DayDrains(drains[tk.cauldron], tk.day)
        matched_events ==
            IF day_drains = << >> THEN << >>
            ELSE IF tk.amount # None THEN <<BestDrain(day_drains, tk.amount[1])>>
            ELSE <<day_drains[1]>>
        s == SumDecreases(series_map[tk.cauldron], tk.day, 1)
        calculated ==
            IF matched_events # << >> THEN Some(matched_events[1].drained)
            ELSE IF s > 0 THEN Some(s) ELSE None
        diff == IF tk.amount # None /\ calculated # None
                THEN Some(Round2(tk.amount[1] - calculated[1])) ELSE None
        suspicious ==
            IF diff # None THEN ExceedsBoth(diff[1], tk.amount[1])
            ELSE IF tk.amount # None THEN tk.amount[1] > 100 * Litre
            ELSE FALSE
    IN  [ticket_id |-> tk.id, cauldron_id |-> tk.cauldron,
         ticket_amount |-> tk.amount,
         calculated_amount |-> IF calculated = None THEN None
                               ELSE Some(Round2(calculated[1])),
         difference |-> diff, suspicious |-> suspicious,
         matched_events |-> matched_events]

\* has_ticket: some result of the cauldron has an amount and a calculated amount
HasTicket(results, c) ==
    \E i \in 1..Len(results) :
        /\ results[i].cauldron_id = c
        /\ results[i].ticket_amount # None
        /\ results[i].calculated_amount # None

\* the drain events of the cauldrons from position i of the data on that are
\* reported as unmatched
RECURSIVE UnmatchedDrains(_, _, _)
UnmatchedDrains(results, drains, i) ==
    IF i > Len(CauldronOrder) THEN << >>
    ELSE LET c == CauldronOrder[i]
             listed == [k \in 1..Len(drains[c]) |->
                           [cauldron_id |-> c, day |-> DayOf(drains[c][k].start),
                            event |-> drains[c][k]]]
         IN  (IF HasTicket(results, c) THEN << >> ELSE listed)
                 \o UnmatchedDrains(results, drains, i + 1)

\* what tickets_match returns for a snapshot
MatchResponse(tickets_raw, resolved, data_raw) ==
    IF \E i \in 1..Len(tickets_raw) : StatusRaises(tickets_raw[i])
    THEN [status |-> "raised", matches |-> << >>, unmatched_drains |-> << >>]
    ELSE LET tickets_list == RemainingTickets(tickets_raw, resolved)
             series_map == [c \in Cauldrons |-> SortSeries(data_raw[c])]
             drains == DrainsByCauldron(series_map)
             results == [i \in 1..Len(tickets_list) |->
                            MatchTicket(tickets_list[i], series_map, drains)]
         IN  [status |-> "ok", matches |-> results,
              unmatched_drains |-> UnmatchedDrains(results, drains, 1)]

\* the simulator's variables, which a run looked at on its own leaves alone
simulator == <<now, active_drains, resolved_tickets, resolved_tickets_lock, drains_lock,
              th, response>>

\* nothing has run yet
Called == [pc |-> "called", runs |-> 0, out |-> None, prev |-> None,
           suspicious_cauldrons |-> {}]

\* MatchRun whose results list outlives the run
MatchRun_Accumulates ==
    /\ request.kind = "tickets_match"
    /\ work.runs < MaxRuns
    /\ LET out == IF request.fetched
                  THEN MatchResponse(request.tickets_raw, resolved_tickets, request.data_raw)
                  ELSE [status |-> "error", matches |-> << >>, unmatched_drains |-> << >>]
           kept == IF work.out = None THEN << >> ELSE work.out[1].matches
           all == [out EXCEPT !.matches = kept \o out.matches]
       IN  work' = [pc |-> "returned", runs |-> work.runs + 1,
                    out |-> Some(all), prev |-> work.out,
                    suspicious_cauldrons |-> work.suspicious_cauldrons]
    /\ UNCHANGED <<request, simulator>>

\* tickets_match from the two fetches to the response: an error when a fetch
\* failed, else the result of the run; suspicious_cauldrons is replaced by
\* the cauldrons of the suspicious results
MatchRun ==
    /\ request.kind = "tickets_match"
    /\ work.runs < MaxRuns
    /\ LET out == IF request.fetched
                  THEN MatchResponse(request.tickets_raw, resolved_tickets, request.data_raw)
                  ELSE [status |-> "error", matches |-> << >>, unmatched_drains |-> << >>]
       IN  work' = [pc |-> "returned", runs |-> work.runs + 1,
                    out |-> Some(out), prev |-> work.out,
                    suspicious_cauldrons |->
                        IF out.status = "ok"
                        THEN {out.matches[i].cauldron_id :
                                 i \in {j \in 1..Len(out.matches) : out.matches[j].suspicious}}
                        ELSE work.suspicious_cauldrons]
    /\ UNCHANGED <<request, simulator>>

\* the simulator is at rest, with resolved as the locally resolved tickets
AtRest(resolved) ==
    /\ now = 0
    /\ active_drains = [c \in Cauldrons |-> NoDrain]
    /\ resolved_tickets = resolved
    /\ resolved_tickets_lock = NoThread
    /\ drains_lock = NoThread
    /\ th = [t \in Threads |-> Idle]
    /\ response = NoResponse

\* a snapshot: the ticket records and, for c1, the samples
Snapshot(fetched, tickets_raw, samples) ==
    [kind |-> "tickets_match", fetched |-> fetched, tickets_raw |-> tickets_raw,
     data_raw |-> [c \in Cauldrons |-> IF c = "c1" THEN samples ELSE << >>]]

\* ---- snapshots with duplicate, completed and resolved tickets and with
\* ---- drains on two days
TicketStates ==
    {[status |-> "open", resolved |-> FALSE],
     [status |-> "completed", resolved |-> FALSE],
     [status |-> "", resolved |-> TRUE]}

TicketCauldron(k) == IF k = "k2" THEN "c2" ELSE "c1"

TicketChoices ==
    {[id |-> k, cauldron |-> TicketCauldron(k), status |-> st.status,
      resolved |-> st.resolved, day |-> d, amount |-> a] :
        k \in {"k1", "k2"}, st \in TicketStates, d \in {0, 1},
        a \in {None, Some(95 * Litre)}}

TicketLists == UNION {[1..n -> TicketChoices] : n \in 0..MaxTickets}

SampleTimes == <<0, 1, MinutesPerDay, MinutesPerDay + 1>>

LevelChoices == {105 * Litre, 200 * Litre}

SeriesChoices ==
    {[i \in 1..Len(SampleTimes) |-> [t |-> SampleTimes[i], v |-> lv[i]]] :
        lv \in [1..Len(SampleTimes) -> LevelChoices]}

ReconInit ==
    /\ \E resolved \in SUBSET {"k1"} : AtRest(resolved)
    /\ request \in {Snapshot(f, tl, sr) :
                       f \in BOOLEAN, tl \in TicketLists, sr \in SeriesChoices}
    /\ work = Called

ReconNext == MatchRun

ReconSpec == ReconInit /\ [][ReconNext]_vars

\* ---- snapshots with one ticket and one drain, amounts around the thresholds
MaxAmountSteps == 20  \* declared amounts go up to this many times ten litres

AmountChoices ==
    {k * 10 * Litre + fine : k \in 0..MaxAmountSteps, fine \in {0, 4, 6}}

DrainedChoices == {0, 400, 10 * Litre, 95 * Litre}

SuspicionInit ==
    /\ AtRest({})
    /\ request \in
         {Snapshot(TRUE,
                   <<[id |-> "k1", cauldron |-> "c1", status |-> "open",
                      resolved |-> FALSE, day |-> 0, amount |-> Some(a)]>>,
                   <<[t |-> 0, v |-> 200 * Litre], [t |-> 1, v |-> 200 * Litre - d]>>) :
              a \in AmountChoices, d \in DrainedChoices}
    /\ work = Called

SuspicionNext == MatchRun

SuspicionSpec == SuspicionInit /\ [][SuspicionNext]_vars

\* ---- snapshots without tickets and with one strictly decreasing series,
\* ---- one sample a minute
MaxSamples == 5       \* samples of the series

StepChoices == {400, 10 * Litre, 10 * Litre + 400}

RECURSIVE Falling(_, _)
\* the series that starts at level v and falls by the steps in turn
Falling(v, steps) ==
    IF steps = << >> THEN <<[t |-> 0, v |-> v]>>
    ELSE LET front == Falling(v, SubSeq(steps, 1, Len(steps) - 1))
         IN  Append(front, [t |-> Len(steps),
                            v |-> front[Len(front)].v - steps[Len(steps)]])

SegmentInit ==
    /\ AtRest({})
    /\ request \in
         {Snapshot(TRUE, << >>, Falling(100 * Litre, steps)) :
              steps \in UNION {[1..n -> StepChoices] : n \in 1..(MaxSamples - 1)}}
    /\ work = Called

SegmentNext == MatchRun

SegmentSpec == SegmentInit /\ [][SegmentNext]_vars

\* ---- snapshots without tickets and with one strictly decreasing series
\* ---- whose steps all exceed half a litre, long or steep enough for the caps
CapStepChoices == {5 * Litre, 60 * Litre}

\* the series that starts at level v and falls by the steps in turn, one
\* sample every gap minutes
FallingEvery(gap, v, steps) ==
    [i \in 1..(Len(steps) + 1) |->
        [t |-> (i - 1) * gap, v |-> Falling(v, steps)[i].v]]

CapInit ==
    /\ AtRest({})
    /\ request \in
         {Snapshot(TRUE, << >>, FallingEvery(gap, 300 * Litre, steps)) :
              gap \in {1, 4},
              steps \in UNION {[1..n -> CapStepChoices] : n \in 1..(MaxSamples - 1)}}
    /\ work = Called

CapNext == MatchRun

CapSpec == CapInit /\ [][CapNext]_vars

\* ------------------------------------------------------- route optimizer
\* times are whole seconds from the `now` of the run
market_id == "market"

\* the cauldrons of the status list, in its order
Sites == <<"c1", "c2", "c3">>

Nodes == {market_id} \cup {Sites[i] : i \in 1..Len(Sites)}

\* dists.get(v) of a node that was not reached
Missing == -1

unload_min == 15

Min(S) == CHOOSE x \in S : \A y \in S : x <= y

\* the largest of a non-empty sequence of times
Latest(arrivals) ==
    CHOOSE x \in {arrivals[i] : i \in 1..Len(arrivals)} :
        \A i \in 1..Len(arrivals) : arrivals[i] <= x

\* adj: every edge in both directions, minutes turned into seconds
BuildGraph(edges) ==
    [u \in Nodes |->
        {<<e.to, e.travel_time_minutes * 60>> : e \in {x \in edges : x.from = u}}
        \cup {<<e.from, e.travel_time_minutes * 60>> : e \in {x \in edges : x.to = u}}]

\* one round of relaxing every edge
Relax(adj, dist) ==
    [v \in Nodes |->
        LET via == UNION {{dist[u] + e[2] : e \in {x \in adj[u] : x[1] = v}} :
                             u \in {x \in Nodes : dist[x] # Missing}}
            all == via \cup (IF dist[v] # Missing THEN {dist[v]} ELSE {})
        IN  IF all = {} THEN Missing ELSE Min(all)]

RECURSIVE Relaxed(_, _, _)
Relaxed(adj, dist, rounds) ==
    IF rounds = 0 THEN dist ELSE Relaxed(adj, Relax(adj, dist), rounds - 1)

\* the dist of _dijkstra: with travel times that are not negative, the
\* shortest travel time from source to each node it reaches
Dijkstra(adj, source) ==
    Relaxed(adj, [v \in Nodes |-> IF v = source THEN 0 ELSE Missing],
            Cardinality(Nodes) - 1)

\* the tasks of the status list: one per entry that has a time to full
RECURSIVE TasksOf(_, _)
TasksOf(ttf, i) ==
    IF i > Len(Sites) THEN << >>
    ELSE (IF ttf[Sites[i]] = None THEN << >>
          ELSE <<[id |-> Sites[i], deadline |-> ttf[Sites[i]][1]]>>)
             \o TasksOf(ttf, i + 1)

\* list.sort(key=deadline) is stable
InsertByDeadline(x, s) ==
    LET k == Cardinality({i \in 1..Len(s) : s[i].deadline <= x.deadline})
    IN  SubSeq(s, 1, k) \o <<x>> \o SubSeq(s, k + 1, Len(s))

RECURSIVE SortTasks(_)
SortTasks(s) ==
    IF s = << >> THEN << >>
    ELSE InsertByDeadline(s[Len(s)], SortTasks(SubSeq(s, 1, Len(s) - 1)))

\* dist_matrix: the distances from the market and from every task node
DistMatrix(adj, tasks) ==
    [src \in {market_id} \cup {tasks[i].id : i \in 1..Len(tasks)} |-> Dijkstra(adj, src)]

travel_seconds(p, u, v) ==
    IF u \in DOMAIN p.dist_matrix /\ p.dist_matrix[u][v] # Missing
    THEN p.dist_matrix[u][v]
    ELSE Dijkstra(p.adj, u)[v]

\* the deadline of the task at a node
DeadlineOf(p, node) ==
    LET i == CHOOSE k \in 1..Len(p.tasks) : p.tasks[k].id = node
    IN  p.tasks[i].deadline

\* the first loop of simulate_route_with_seq: the arrival at every stop of
\* seq, travelling from prev at time tcur; None when a stop is not reached
RECURSIVE ArrivalsFrom(_, _, _, _)
ArrivalsFrom(p, prev, tcur, seq) ==
    IF seq = << >> THEN Some(<< >>)
    ELSE LET travel == travel_seconds(p, prev, Head(seq))
         IN  IF travel = Missing THEN None
             ELSE LET rest == ArrivalsFrom(p, Head(seq), tcur + travel, Tail(seq))
                  IN  IF rest = None THEN None
                      ELSE Some(<<tcur + travel>> \o rest[1])

\* ArrivalsFrom with every stop reached straight from the market
RECURSIVE ArrivalsFromMarket(_, _)
ArrivalsFromMarket(p, seq) ==
    IF seq = << >> THEN Some(<< >>)
    ELSE LET travel == travel_seconds(p, market_id, Head(seq))
             rest == ArrivalsFromMarket(p, Tail(seq))
         IN  IF travel = Missing \/ rest = None THEN None
             ELSE Some(<<travel>> \o rest[1])

\* simulate_route_with_seq that takes every route for feasible once all its
\* stops are reached
simulate_route_NoDeadlines(p, seq) ==
    LET arrivals == ArrivalsFrom(p, market_id, 0, seq)
    IN  IF arrivals = None THEN None
        ELSE IF travel_seconds(p, seq[Len(seq)], market_id) = Missing THEN None
        ELSE arrivals

\* simulate_route_with_seq that starts every leg at the market
simulate_route_FromMarket(p, seq) ==
    LET arrivals == ArrivalsFromMarket(p, seq)
    IN  IF arrivals = None THEN None
        ELSE IF travel_seconds(p, seq[Len(seq)], market_id) = Missing THEN None
        ELSE IF \E i \in 1..Len(seq) : arrivals[1][i] > DeadlineOf(p, seq[i]) THEN None
        ELSE arrivals

\* simulate_route_with_seq: None for (False, None), else the arrivals in
\* the order of seq; the time back at the market and the unloading are
\* added to tcur after the last arrival and are not looked at again
simulate_route_with_seq(p, seq) ==
    LET arrivals == ArrivalsFrom(p, market_id, 0, seq)
    IN  IF arrivals = None THEN None
        ELSE IF travel_seconds(p, seq[Len(seq)], market_id) = Missing THEN None
        ELSE IF \E i \in 1..Len(seq) : arrivals[1][i] > DeadlineOf(p, seq[i]) THEN None
        ELSE arrivals

\* seq[:pos] + [id] + seq[pos+1:]
NewSeq_Overwrites(seq, pos, id) ==
    SubSeq(seq, 1, pos) \o <<id>> \o SubSeq(seq, pos + 2, Len(seq))

\* seq[:pos] + [id] + seq[pos:]
NewSeq(seq, pos, id) ==
    SubSeq(seq, 1, pos) \o <<id>> \o SubSeq(seq, pos + 1, Len(seq))

\* the insertions of the task that simulate as feasible
Choices(p, routes, id) ==
    {ch \in {[ri |-> ri, pos |-> pos] :
                ri \in 1..Len(routes), pos \in 0..Len(Sites)} :
        /\ ch.pos <= Len(routes[ch.ri].seq)
        /\ simulate_route_with_seq(p, NewSeq(routes[ch.ri].seq, ch.pos, id)) # None}

\* latest_arrival of an insertion
LatestOf(p, routes, id, ch) ==
    Latest(simulate_route_with_seq(p, NewSeq(routes[ch.ri].seq, ch.pos, id))[1])

\* best_choice: in the order of the loops, the first insertion whose latest
\* arrival no other insertion undercuts
BestChoice(p, routes, id) ==
    CHOOSE ch \in Choices(p, routes, id) :
        \A o \in Choices(p, routes, id) :
            \/ LatestOf(p, routes, id, ch) < LatestOf(p, routes, id, o)
            \/ /\ LatestOf(p, routes, id, ch) = LatestOf(p, routes, id, o)
               /\ \/ ch.ri < o.ri
                  \/ ch.ri = o.ri /\ ch.pos <= o.pos

\* the single-task route that never counts as impossible
NewRoute_Optimistic(p, id) ==
    LET arrivals == simulate_route_with_seq(p, <<id>>)
    IN  [seq |-> <<id>>,
         arrivals |-> IF arrivals # None THEN arrivals[1] ELSE << >>,
         impossible |-> FALSE]

\* the single-task route of a task that was not placed
NewRoute(p, id) ==
    LET arrivals == simulate_route_with_seq(p, <<id>>)
    IN  IF arrivals # None
        THEN [seq |-> <<id>>, arrivals |-> arrivals[1], impossible |-> FALSE]
        ELSE [seq |-> <<id>>, arrivals |-> << >>, impossible |-> TRUE]

\* the routes after one turn of the insertion loop
Inserted(p, routes, id) ==
    IF Choices(p, routes, id) # {}
    THEN LET ch == BestChoice(p, routes, id)
             new_seq == NewSeq(routes[ch.ri].seq, ch.pos, id)
         IN  [routes EXCEPT ![ch.ri] =
                 [@ EXCEPT !.seq = new_seq,
                           !.arrivals = simulate_route_with_seq(p, new_seq)[1]]]
    ELSE Append(routes, NewRoute(p, id))

\* api_optimizer_compute up to the insertion loop: the tasks in the order of
\* their deadlines, the graph and the distances
OptimizerPlan ==
    /\ request.kind = "optimizer"
    /\ work.pc = "called"
    /\ LET tasks == TasksOf(request.time_to_full_seconds, 1)
           adj == BuildGraph(request.edges)
       IN  work' = [pc |-> "inserting",
                    plan |-> [tasks |-> SortTasks(tasks), adj |-> adj,
                              dist_matrix |-> DistMatrix(adj, tasks)],
                    k |-> 1, routes |-> << >>, required_couriers |-> None]
    /\ UNCHANGED <<request, simulator>>

\* one turn of the insertion loop
InsertTask ==
    /\ request.kind = "optimizer"
    /\ work.pc = "inserting"
    /\ work.k <= Len(work.plan.tasks)
    /\ work' = [work EXCEPT !.k = @ + 1,
                            !.routes = Inserted(work.plan, @, work.plan.tasks[work.k].id)]
    /\ UNCHANGED <<request, simulator>>

\* the response once every task was handled
OptimizerRespond ==
    /\ request.kind = "optimizer"
    /\ work.pc = "inserting"
    /\ work.k > Len(work.plan.tasks)
    /\ work' = [work EXCEPT !.pc = "returned",
                            !.required_couriers = Some(Len(work.routes))]
    /\ UNCHANGED <<request, simulator>>

\* ---- status lists and networks: every cauldron has no task or one of three
\* ---- deadlines, and no road or one of two to the market; c1-c2 and c2-c3
\* ---- may be joined
TimeToFullChoices == {None, Some(300), Some(3600), Some(6000)}

EdgeSlots ==
    <<[from |-> market_id, to |-> "c1", minutes |-> {Missing, 2, 50}],
      [from |-> market_id, to |-> "c2", minutes |-> {Missing, 2, 50}],
      [from |-> market_id, to |-> "c3", minutes |-> {Missing, 2, 50}],
      [from |-> "c1", to |-> "c2", minutes |-> {Missing, 2}],
      [from |-> "c2", to |-> "c3", minutes |-> {Missing, 2}]>>

\* the networks: a choice of minutes, or of no edge, for every slot
Networks ==
    {{[from |-> EdgeSlots[i].from, to |-> EdgeSlots[i].to,
       travel_time_minutes |-> ch[i]] : i \in {j \in 1..Len(EdgeSlots) : ch[j] # Missing}} :
        ch \in {f \in [1..Len(EdgeSlots) -> {Missing, 2, 50}] :
                   \A i \in 1..Len(EdgeSlots) : f[i] \in EdgeSlots[i].minutes}}

SchedInit ==
    /\ AtRest({})
    /\ request \in {[kind |-> "optimizer", time_to_full_seconds |-> ttf, edges |-> net] :
                       ttf \in [{Sites[i] : i \in 1..Len(Sites)} -> TimeToFullChoices],
                       net \in Networks}
    /\ work = [pc |-> "called"]

SchedNext ==
    \/ OptimizerPlan
    \/ InsertTask
    \/ OptimizerRespond

SchedSpec == SchedInit /\ [][SchedNext]_vars

\* --------------------------------------------------------- rate estimator
\* rates are whole millilitres per minute, timestamps whole minutes
MaxRecords == 3       \* the upstream delivers at most this many history records
MaxRefreshes == 1     \* recomputes of the rates by one writer

sample_limit == 500

\* records[-sample_limit:]
LastRecords(records) ==
    SubSeq(records, Max(1, Len(records) - sample_limit + 1), Len(records))

\* per_series[cid]: the samples of the cauldron whose level is a number, in
\* the order of delivery
RECURSIVE PerSeries(_, _)
PerSeries(records, c) ==
    IF records = << >> THEN << >>
    ELSE LET front == PerSeries(SubSeq(records, 1, Len(records) - 1), c)
             rec == records[Len(records)]
         IN  IF rec.cauldron_levels[c] = None THEN front
             ELSE Append(front, [t |-> rec.timestamp, v |-> rec.cauldron_levels[c][1]])

\* the rate of every pair of consecutive samples that is not skipped
RECURSIVE IntervalRates(_, _)
IntervalRates(series, i) ==
    IF i >= Len(series) THEN << >>
    ELSE LET dt_min == series[i + 1].t - series[i].t
             delta == series[i + 1].v - series[i].v
         IN  (IF dt_min <= 0 \/ dt_min > 60 * 24 THEN << >>
              ELSE <<delta \div dt_min>>) \o IntervalRates(series, i + 1)

InsertSorted(x, s) ==
    LET k == Cardinality({i \in 1..Len(s) : s[i] <= x})
    IN  SubSeq(s, 1, k) \o <<x>> \o SubSeq(s, k + 1, Len(s))

RECURSIVE Sorted(_)
Sorted(s) ==
    IF s = << >> THEN << >>
    ELSE InsertSorted(s[Len(s)], Sorted(SubSeq(s, 1, Len(s) - 1)))

\* statistics.median
Median(vals) ==
    LET s == Sorted(vals)
        n == Len(s)
    IN  IF n % 2 = 1 THEN s[(n + 1) \div 2]
        ELSE (s[n \div 2] + s[n \div 2 + 1]) \div 2

\* choose(vals)
ChooseRate(vals) == IF vals = << >> THEN 0 ELSE Median(vals)

\* the two lists of rates, their central values and the bounds on them
RatesOf(fill_rates, drain_rates) ==
    LET fill_r == ChooseRate(fill_rates)
        drain_r == ChooseRate(drain_rates)
    IN  [fill_rate_per_min |-> IF fill_r < 0 \/ fill_r > 1000 * Litre THEN 0 ELSE fill_r,
         drain_rate_per_min |-> IF drain_r < 0 \/ drain_r > 5000 * Litre THEN 0 ELSE drain_r]

\* EntityRates with the two lists of rates exchanged
EntityRates_Swapped(series) ==
    LET rates == IntervalRates(series, 1)
        neg(x) == -x
        drains == SelectSeq(rates, LAMBDA x : x < 0)
    IN  RatesOf([i \in 1..Len(drains) |-> neg(drains[i])],
                SelectSeq(rates, LAMBDA x : x > 0))

\* the entry of one cauldron: positive rates are fill rates, the absolute
\* values of the negative ones are drain rates
EntityRates(series) ==
    LET rates == IntervalRates(series, 1)
        neg(x) == -x
        drains == SelectSeq(rates, LAMBDA x : x < 0)
    IN  RatesOf(SelectSeq(rates, LAMBDA x : x > 0),
                [i \in 1..Len(drains) |-> neg(drains[i])])

\* _compute_rates_from_history on what the fetch returned: None when it
\* failed, else the records; the result has an entry for every cauldron that
\* has a sample
_compute_rates(raw) ==
    LET records == IF raw = None THEN << >> ELSE LastRecords(raw[1])
    IN  [c \in {x \in Cauldrons : PerSeries(records, x) # << >>} |->
            EntityRates(PerSeries(records, c))]

\* the threads that recompute the rates: the loop that
\* _refresh_rates_periodically starts, and a handler running api_compute_rates
RateWriters == {"refresher", "api"}

\* the rates load_static_factory_data falls back to
FallbackRates == [fill_rate_per_min |-> Litre, drain_rate_per_min |-> 12 * Litre]

\* a writer between two recomputes
Resting(runs, raw, computed) ==
    [pc |-> "idle", idx |-> 0, runs |-> runs, raw |-> raw, computed |-> computed]

\* the rate fields of factory_static_data['cauldrons'] after startup, the
\* writers at rest, nothing read yet
RatesAtStart ==
    [pc |-> "rates",
     table |-> [c \in Cauldrons |-> FallbackRates],
     w |-> [x \in RateWriters |-> Resting(0, None, << >>)],
     seen |-> None]

\* the loop over the static records goes on behind position idx
Advance(l) ==
    IF l.idx < Len(CauldronOrder)
    THEN [l EXCEPT !.pc = "write_fill", !.idx = @ + 1]
    ELSE [l EXCEPT !.pc = "idle", !.idx = 0]

\* computed = _compute_rates_from_history(): the fetch, which fails or
\* delivers one of the histories, and the computation; `if computed:`
RatesCompute(w) ==
    /\ request.kind = "rates"
    /\ work.w[w].pc = "idle"
    /\ work.w[w].runs < MaxRefreshes
    /\ \E raw \in request.history :
         LET computed == _compute_rates(raw)
             l == Resting(work.w[w].runs + 1, raw, computed)
         IN  work' = [work EXCEPT !.w[w] =
                         IF DOMAIN computed = {} THEN l
                         ELSE [l EXCEPT !.pc = "write_fill", !.idx = 1]]
    /\ UNCHANGED <<request, simulator>>

\* `if cid in computed` and the assignment to c['fill_rate_per_min']
WriteFill(w) ==
    /\ request.kind = "rates"
    /\ work.w[w].pc = "write_fill"
    /\ LET c == CauldronOrder[work.w[w].idx]
       IN  IF c \in DOMAIN work.w[w].computed
           THEN work' = [work EXCEPT
                    !.table[c].fill_rate_per_min = work.w[w].computed[c].fill_rate_per_min,
                    !.w[w].pc = "write_drain"]
           ELSE work' = [work EXCEPT !.w[w] = Advance(@)]
    /\ UNCHANGED <<request, simulator>>

\* the assignment to c['drain_rate_per_min']
WriteDrain(w) ==
    /\ request.kind = "rates"
    /\ work.w[w].pc = "write_drain"
    /\ LET c == CauldronOrder[work.w[w].idx]
       IN  work' = [work EXCEPT
               !.table[c].drain_rate_per_min = work.w[w].computed[c].drain_rate_per_min,
               !.w[w] = Advance(@)]
    /\ UNCHANGED <<request, simulator>>

\* get_cauldron_levels: static_cauldron.copy() of the record of cauldron c
ReadEntry(c) ==
    /\ request.kind = "rates"
    /\ work' = [work EXCEPT !.seen = Some([id |-> c, rates |-> work.table[c]])]
    /\ UNCHANGED <<request, simulator>>

\* ---- one recompute over every short history
RecordChoices ==
    {[timestamp |-> t, cauldron_levels |-> [c \in Cauldrons |-> IF c = "c1" THEN a ELSE b]] :
        t \in 0..(MaxRecords - 1),
        a \in {None, Some(10 * Litre), Some(20 * Litre)},
        b \in {None, Some(10 * Litre)}}

Histories == UNION {[1..n -> RecordChoices] : n \in 0..MaxRecords}

EstimatorInit ==
    /\ AtRest({})
    /\ request \in {[kind |-> "rates", history |-> {raw}] :
                       raw \in {None} \cup {Some(h) : h \in Histories}}
    /\ work = RatesAtStart

EstimatorNext ==
    \/ RatesCompute("refresher")
    \/ WriteFill("refresher")
    \/ WriteDrain("refresher")

EstimatorSpec == EstimatorInit /\ [][EstimatorNext]_vars

\* ---- two writers and a reader, while the history upstream goes from
\* ---- rising levels to falling ones
RisingLevels ==
    <<[timestamp |-> 0, cauldron_levels |-> [c \in Cauldrons |-> Some(10 * Litre)]],
      [timestamp |-> 1, cauldron_levels |-> [c \in Cauldrons |-> Some(20 * Litre)]]>>

FallingLevels ==
    <<[timestamp |-> 0, cauldron_levels |-> [c \in Cauldrons |-> Some(20 * Litre)]],
      [timestamp |-> 1, cauldron_levels |-> [c \in Cauldrons |-> Some(10 * Litre)]]>>

RateTableInit ==
    /\ AtRest({})
    /\ request = [kind |-> "rates", history |-> {None, Some(RisingLevels), Some(FallingLevels)}]
    /\ work = RatesAtStart

RateTableNext ==
    \/ \E w \in RateWriters :
        \/ RatesCompute(w)
        \/ WriteFill(w)
        \/ WriteDrain(w)
    \/ \E c \in Cauldrons : ReadEntry(c)

RateTableSpec == RateTableInit /\ [][RateTableNext]_vars

\* ------------------------------------------------- status and its forecast
\* one status read from the fetch to the response, as a run: request holds
\* what the upstream and the static records deliver; volumes are litres and the
\* clock minutes, as in the drain simulator

\* round(x, 1) of the ratio a / b in tenths (no input below produces a tie)
RoundTenths(a, b) == (20 * a + b) \div (2 * b)

\* forecast_fill_times for one record: time_to_full_min in tenths of a minute
time_to_full_min(level, max_volume, fill_rate) ==
    IF level < max_volume /\ fill_rate > 0
    THEN Some(RoundTenths(max_volume - level, fill_rate))
    ELSE None

\* int(round(float(time_to_full_min) * 60))
time_to_full_seconds(ttf_min) ==
    IF ttf_min = None THEN None ELSE Some(ttf_min[1] * 6)

\* the status record of cauldron c: the level is overridden by that of the
\* drain, the forecast is the one made from the fetched levels
StatusRecord(c, live, static, d, t) ==
    LET new_level == Remaining(d, t)
        current == IF d = NoDrain THEN live[c] ELSE new_level
    IN  [id |-> c,
         current_level |-> current,
         is_draining |-> d # NoDrain /\ new_level > 0,
         time_to_full_seconds |->
             time_to_full_seconds(time_to_full_min(live[c], static.max_volume,
                                                   static.fill_rate_per_min))]

\* the loop of cauldron_status from position i on, with drains the registry
\* at that point: the registry after the loop, the records, and whether the
\* milestone log raised
RECURSIVE StatusLoop(_, _, _, _, _)
StatusLoop(i, live, static, drains, t) ==
    IF i > Len(CauldronOrder)
    THEN [raised |-> FALSE, drains |-> drains, status_list |-> << >>]
    ELSE LET c == CauldronOrder[i]
             d == drains[c]
         IN  IF d # NoDrain /\ Remaining(d, t) > 0 /\ MilestoneLogRaises(d, t)
             THEN [raised |-> TRUE, drains |-> drains, status_list |-> << >>]
             ELSE LET rest == StatusLoop(i + 1, live, static,
                                         IF d # NoDrain /\ Remaining(d, t) <= 0
                                         THEN [drains EXCEPT ![c] = NoDrain]
                                         ELSE drains, t)
                  IN  [rest EXCEPT !.status_list =
                          <<StatusRecord(c, live, static, d, t)>> \o @]

\* cauldron_status: an error when the fetch failed or the loop raised, else
\* the status list
StatusRun ==
    /\ request.kind = "status"
    /\ work.pc = "called"
    /\ LET out == StatusLoop(1, request.live, request.static, active_drains, now)
       IN  /\ active_drains' = IF request.fetched THEN out.drains ELSE active_drains
           /\ work' = [pc |-> "returned",
                       status_code |-> IF request.fetched /\ ~out.raised THEN 200 ELSE 500,
                       status_list |-> IF request.fetched /\ ~out.raised
                                       THEN out.status_list ELSE << >>]
    /\ UNCHANGED <<request, now, resolved_tickets, resolved_tickets_lock, drains_lock,
                   th, response>>

\* ---- status reads while c1 is idle or drained by a courier
FetchedLevels == {k * 10 : k \in 0..(MaxLevel \div 10)}

StaticChoices ==
    {[max_volume |-> m, fill_rate_per_min |-> f] : m \in {MaxLevel, MaxLevel + 10}, f \in 0..2}

DrainChoices == {NoDrain} \cup {NewDrain("c1", l, 0) : l \in {20, 30, 40}}

ForecastInit ==
    /\ now \in 0..MaxTime
    /\ active_drains \in {[c \in Cauldrons |-> IF c = "c1" THEN d ELSE NoDrain] :
                             d \in DrainChoices}
    /\ resolved_tickets = {}
    /\ resolved_tickets_lock = NoThread
    /\ drains_lock = NoThread
    /\ th = [t \in Threads |-> Idle]
    /\ response = NoResponse
    /\ request \in {[kind |-> "status", fetched |-> f, live |-> l, static |-> s] :
                       f \in BOOLEAN, l \in [Cauldrons -> FetchedLevels],
                       s \in StaticChoices}
    /\ work = [pc |-> "called"]

ForecastNext == StatusRun

ForecastSpec == ForecastInit /\ [][ForecastNext]_vars

\* ------------------------------------------------------ the two locks
\* The handlers with every acquire and release of drains_lock and of
\* resolved_tickets_lock as a step of its own, and the upstream requests that
\* are in flight between two steps.  A thread at "status_loop", "lock" or
\* "reset_drains" is before or inside a `with drains_lock` block, inside when
\* it is the holder.

\* the upstream request a thread has sent and not yet got the answer of: the
\* ticket fetch of _resolve_tickets_for_cauldron, the PUT of a resolved
\* ticket, the data fetch of tickets_match
InFlight(t) == th[t].pc \in {"resolve", "put_ticket", "get_data"}

\* cauldron_status: `with drains_lock:` is entered
StatusAcquire(t) ==
    /\ th[t].pc = "status_loop"
    /\ drains_lock = NoThread
    /\ drains_lock' = t
    /\ UNCHANGED <<request, work, now, shared, th, response>>

\* cauldron_status: the block for the cauldron at position idx and its exit,
\* by the end of the block or by the AttributeError of the milestone log
StatusLocked(t) ==
    /\ th[t].pc = "status_loop"
    /\ drains_lock = t
    /\ StatusBody(t)
    /\ drains_lock' = NoThread
    /\ UNCHANGED <<request, work, now, resolved_tickets, resolved_tickets_lock>>

\* _dispatch_courier: `with drains_lock:` is entered
DispatchAcquire(t) ==
    /\ th[t].pc = "lock"
    /\ drains_lock = NoThread
    /\ drains_lock' = t
    /\ UNCHANGED <<request, work, now, shared, th, response>>

\* DispatchHeld that goes on to _resolve_tickets_for_cauldron inside the block
DispatchHeld_CallsInside(t) ==
    /\ th[t].pc = "lock"
    /\ drains_lock = t
    /\ DispatchBody(t)
    /\ drains_lock' = IF th'[t].pc = "resolve" THEN t ELSE NoThread
    /\ UNCHANGED <<request, work, now, resolved_tickets, resolved_tickets_lock>>

\* _dispatch_courier: the block and its exit; _resolve_tickets_for_cauldron
\* is called after it
DispatchHeld(t) ==
    /\ th[t].pc = "lock"
    /\ drains_lock = t
    /\ DispatchBody(t)
    /\ drains_lock' = NoThread
    /\ UNCHANGED <<request, work, now, resolved_tickets, resolved_tickets_lock>>

\* the positions of the tickets the loop of _resolve_tickets_for_cauldron
\* has still to mark for cauldron c
Unmarked(c) ==
    {i \in 1..Len(Tickets) : Tickets[i].cauldron = c /\ Tickets[i].id \notin resolved_tickets}

\* _resolve_tickets_for_cauldron under the lock: the next ticket of the
\* cauldron is added to resolved_tickets and the PUT for it is sent
ResolveNext(t) ==
    /\ th[t].pc = "resolving"
    /\ resolved_tickets_lock = t
    /\ Unmarked(th[t].cid) # {}
    /\ LET i == CHOOSE i \in Unmarked(th[t].cid) : \A j \in Unmarked(th[t].cid) : i <= j
       IN  resolved_tickets' = resolved_tickets \cup {Tickets[i].id}
    /\ Continue(t, [th[t] EXCEPT !.pc = "put_ticket"])
    /\ UNCHANGED <<run, now, active_drains, resolved_tickets_lock>>

\* requests.put returns, fails or times out; the loop goes on
PutReturns(t) ==
    /\ th[t].pc = "put_ticket"
    /\ Continue(t, [th[t] EXCEPT !.pc = "resolving"])
    /\ UNCHANGED <<run, now, shared>>

\* _resolve_tickets_for_cauldron: the loop is over, the block is left
ResolveRelease(t) ==
    /\ th[t].pc = "resolving"
    /\ resolved_tickets_lock = t
    /\ Unmarked(th[t].cid) = {}
    /\ resolved_tickets_lock' = NoThread
    /\ Dispatched(t)
    /\ UNCHANGED <<run, now, active_drains, resolved_tickets>>

\* tickets_match: the tickets are fetched
MatchBegin(t) ==
    /\ th[t].pc = "idle"
    /\ Continue(t, [Idle EXCEPT !.pc = "match_lock", !.op = "match"])
    /\ UNCHANGED <<run, now, shared>>

\* tickets_match: `with resolved_tickets_lock:` is entered
MatchAcquire(t) ==
    /\ th[t].pc = "match_lock"
    /\ resolved_tickets_lock = NoThread
    /\ resolved_tickets_lock' = t
    /\ UNCHANGED <<run, now, active_drains, resolved_tickets, th, response>>

\* tickets_match: the filter under the lock and the exit of the block; the
\* data fetch is sent
MatchFilter(t) ==
    /\ th[t].pc = "match_lock"
    /\ resolved_tickets_lock = t
    /\ resolved_tickets_lock' = NoThread
    /\ Continue(t, [pc |-> "get_data", op |-> "match", cid |-> NoId, idx |-> 0,
                    current_level |-> 0, is_draining |-> FALSE, issued |-> 0,
                    seen_tickets |-> SeenTickets(Len(Tickets), resolved_tickets)])
    /\ UNCHANGED <<run, now, active_drains, resolved_tickets>>

\* tickets_match: the data fetch returns or fails
MatchData(t) ==
    /\ th[t].pc = "get_data"
    /\ \E ok \in BOOLEAN :
         IF ok
         THEN Finish(t, "match", NoId, "match_ok", 0, FALSE, th[t].seen_tickets)
         ELSE Finish(t, "match", NoId, "match_error", 0, FALSE, << >>)
    /\ UNCHANGED <<run, now, shared>>

\* reset_drains is called
ResetBegin(t) ==
    /\ th[t].pc = "idle"
    /\ Continue(t, [Idle EXCEPT !.pc = "reset_drains", !.op = "reset"])
    /\ UNCHANGED <<run, now, shared>>

\* reset_drains: `with drains_lock:` is entered
ResetDrainsAcquire(t) ==
    /\ th[t].pc = "reset_drains"
    /\ drains_lock = NoThread
    /\ drains_lock' = t
    /\ UNCHANGED <<request, work, now, shared, th, response>>

\* reset_drains: active_drains.clear() and the exit of the block
ResetDrainsLocked(t) ==
    /\ th[t].pc = "reset_drains"
    /\ drains_lock = t
    /\ active_drains' = [c \in Cauldrons |-> NoDrain]
    /\ drains_lock' = NoThread
    /\ Continue(t, [th[t] EXCEPT !.pc = "reset_tickets"])
    /\ UNCHANGED <<request, work, now, resolved_tickets, resolved_tickets_lock>>

\* reset_drains: `with resolved_tickets_lock:` is entered
ResetTicketsAcquire(t) ==
    /\ th[t].pc = "reset_tickets"
    /\ resolved_tickets_lock = NoThread
    /\ resolved_tickets_lock' = t
    /\ UNCHANGED <<run, now, active_drains, resolved_tickets, th, response>>

\* reset_drains: resolved_tickets.clear() and the exit of the block
ResetTicketsLocked(t) ==
    /\ th[t].pc = "reset_tickets"
    /\ resolved_tickets_lock = t
    /\ resolved_tickets' = {}
    /\ resolved_tickets_lock' = NoThread
    /\ FinishPlain(t, "reset_ok")
    /\ UNCHANGED <<run, now, active_drains>>

LockNext ==
    \/ Tick
    \/ \E t \in Threads :
        \/ \E c \in Cauldrons : BeginDispatch(t, c)
        \/ \E c \in Cauldrons : BeginStatus(t, c)
        \/ StatusAcquire(t)
        \/ StatusLocked(t)
        \/ AnnotCheck(t)
        \/ AnnotRead(t)
        \/ DispatchAcquire(t)
        \/ DispatchHeld(t)
        \/ ResolveFetchFails(t)
        \/ ResolveAcquire(t)
        \/ ResolveNext(t)
        \/ PutReturns(t)
        \/ ResolveRelease(t)
        \/ MatchFetchFails(t)
        \/ MatchBegin(t)
        \/ MatchAcquire(t)
        \/ MatchFilter(t)
        \/ MatchData(t)
        \/ ResetBegin(t)
        \/ ResetDrainsAcquire(t)
        \/ ResetDrainsLocked(t)
        \/ ResetTicketsAcquire(t)
        \/ ResetTicketsLocked(t)

LockSpec == Init /\ [][LockNext]_vars

\* ------------------------------------------------------------ properties
Draining(c) == active_drains[c] # NoDrain

\* some handler of kind o takes the step
StepOf(o) ==
    \/ response'.op = o
    \/ \E t \in Threads : th'[t] # th[t] /\ (th[t].op = o \/ th'[t].op = o)

\* C1: an entry of the registry is never overwritten by any step, and the
\* locked check-then-insert of a dispatch command is exclusive: it creates the
\* entry exactly when there is none, and when there is one it returns
\* already_draining and leaves the registry as it is.  Of two commands racing
\* for an Idle entity the first to take the lock creates, the other does not.
C1_ExclusiveDispatch ==
    [][\A c \in Cauldrons :
        /\ Draining(c) /\ active_drains'[c] # NoDrain => active_drains'[c] = active_drains[c]
        /\ \A t \in Threads :
             th[t].pc = "lock" /\ th[t].cid = c /\ th'[t] # th[t] =>
                IF Draining(c)
                THEN /\ active_drains' = active_drains
                     /\ response'.status = "already_draining"
                     /\ response'.cid = c
                ELSE /\ active_drains'[c] # NoDrain
                     /\ th'[t].pc = "resolve"
                     /\ response' = NoResponse]_vars

\* two commands for the same entity at once: one created the entry and is
\* still in its handler, the other has just returned already_draining
C1_Witness ==
    /\ response.status = "already_draining"
    /\ \E t \in Threads :
         /\ th[t].pc \in {"resolve", "resolving"}
         /\ th[t].cid = response.cid
         /\ th[t].issued = now
         /\ active_drains[th[t].cid] = NewDrain(th[t].cid, th[t].current_level, now)

\* C2: no step of a dispatch command changes the start_time, initial_level or
\* drain_rate of an existing entry (the status read inside the command may
\* remove an entry whose remaining level is 0, nothing else), and a command
\* that returns already_draining reports the progress of the unchanged entry.
C2_DispatchKeepsDrain ==
    [][StepOf("dispatch") =>
        \A c \in Cauldrons :
            LET d == active_drains[c]
            IN  /\ Draining(c) =>
                     \/ active_drains'[c] = d
                     \/ active_drains'[c] = NoDrain /\ Remaining(d, now) = 0
                /\ response'.status = "already_draining" /\ response'.cid = c =>
                     /\ Draining(c)
                     /\ active_drains'[c] = d
                     /\ response'.current_level = Remaining(d, now)]_vars

\* a repeated command in the middle of a drain: the entry was started earlier,
\* part of it is drained, and the command returned already_draining
C2_Witness ==
    /\ response.op = "dispatch"
    /\ response.status = "already_draining"
    /\ Draining(response.cid)
    /\ active_drains[response.cid].start_time < now
    /\ response.current_level = Remaining(active_drains[response.cid], now)
    /\ response.current_level > 0
    /\ response.current_level < active_drains[response.cid].initial_level

\* C3: a dispatch command that was called while its entity was Draining (the
\* entry is older than the call), whose live-data fetch succeeded, and that
\* returns while that entry still has remaining level > 0, returns
\* already_draining with the current progress, never a failed result.
C3_DispatchOnDrainingSucceeds ==
    [][\A t \in Threads :
        LET c == th[t].cid
            d == active_drains[c]
        IN  /\ th[t].op = "dispatch"
            /\ th[t].pc # "idle"
            /\ th'[t].pc = "idle"
            /\ Draining(c)
            /\ active_drains'[c] = d
            /\ d.start_time < th[t].issued
            /\ Remaining(d, now) > 0
            => /\ response'.status = "already_draining"
               /\ response'.current_level = Remaining(d, now)]_vars

\* the result of the status read for the cauldron the caller looks at, after
\* the iteration of the loop for that cauldron
StatusReported(t) ==
    IF th'[t].pc = "status_loop"
    THEN [ok |-> TRUE, current_level |-> th'[t].current_level,
          is_draining |-> th'[t].is_draining]
    ELSE [ok |-> response'.status = "status_ok", current_level |-> response'.current_level,
          is_draining |-> response'.is_draining]

\* C4: the iteration of a status read for a Draining entity always yields a
\* result: with remaining > 0 it reports is_draining and the remaining level
\* and keeps the entry, with remaining = 0 it reports level 0, not draining,
\* and removes the entry.
C4_StatusOfDraining ==
    [][\A t \in Threads :
        LET c == th[t].cid
            d == active_drains[c]
        IN  /\ th[t].pc = "status_loop"
            /\ th[t].op = "status"
            /\ CauldronOrder[th[t].idx] = c
            /\ Draining(c)
            /\ th'[t] # th[t]
            => /\ StatusReported(t).ok
               /\ StatusReported(t).current_level = Remaining(d, now)
               /\ StatusReported(t).is_draining = (Remaining(d, now) > 0)
               /\ active_drains'[c] = IF Remaining(d, now) > 0 THEN d ELSE NoDrain]_vars

\* C5: when an iteration of a status read removes the entry of an entity
\* because its remaining level is 0, and every dispatch command that created
\* an entry has finished its ticket resolution, all tickets of that entity are
\* in resolved_tickets afterwards and tickets_match would report none of them.
C5_CompletionResolvesTickets ==
    [][\A c \in Cauldrons :
        /\ \E t \in Threads : th[t].pc = "status_loop" /\ th'[t] # th[t]
        /\ Draining(c)
        /\ Remaining(active_drains[c], now) = 0
        /\ active_drains'[c] = NoDrain
        /\ \A u \in Threads : th[u].op = "dispatch" => th[u].pc \notin {"resolve", "resolving"}
        => /\ \A i \in 1..Len(Tickets) :
                 Tickets[i].cauldron = c /\ ~IsResolvedApi(Tickets[i])
                 => Tickets[i].id \in resolved_tickets'
           /\ LET seen == SeenTickets(Len(Tickets), resolved_tickets')
              IN  \A i \in 1..Len(seen) : seen[i] \notin TicketsOf(c)]_vars

\* C6: a ticket id enters resolved_tickets only in the step that completes a
\* dispatch of its entity (the entry is removed with remaining level 0), never
\* while the drain is still running.
C6_ResolvedOnlyAtCompletion ==
    [][\A k \in resolved_tickets' \ resolved_tickets :
        \E c \in Cauldrons :
            /\ k \in TicketsOf(c)
            /\ Draining(c)
            /\ Remaining(active_drains[c], now) = 0
            /\ active_drains'[c] = NoDrain]_vars

C8_NewDrainFromObservedLevel ==
    [][\A c \in Cauldrons :
        active_drains[c] = NoDrain /\ active_drains'[c] # NoDrain =>
            /\ active_drains'[c].start_time = now
            /\ active_drains'[c].drain_rate = Max(15, natural_drain(c))
            /\ active_drains'[c].initial_level \in Levels \ {0}]_vars

\* C9: a dispatch command whose status read found current_level <= 0 causes no
\* transition: from then on none of its steps changes the registry or
\* resolved_tickets, it never reaches the locked section, and when its
\* _get_status is through it returns already_empty with level 0.  No entry is
\* ever created with initial_level 0.
C9_EmptyIsNoOp ==
    /\ [](\A t \in Threads :
            th[t].pc \in {"lock", "resolve", "resolving"} => th[t].current_level > 0)
    /\ [](\A c \in Cauldrons : Draining(c) => active_drains[c].initial_level > 0)
    /\ [][\A t \in Threads :
            /\ th[t].pc \in {"annot_check", "annot_read"}
            /\ th[t].current_level <= 0
            /\ th'[t] # th[t]
            => /\ active_drains' = active_drains
               /\ resolved_tickets' = resolved_tickets
               /\ th'[t].pc \in {"annot_check", "annot_read", "idle"}
               /\ th[t].pc = "annot_check" /\ th'[t].pc = "idle" =>
                    /\ response'.op = "dispatch"
                    /\ response'.cid = th[t].cid
                    /\ response'.status = "already_empty"
                    /\ response'.current_level = 0]_vars

\* the entity reported empty is Idle and none of its tickets is resolved
C9_Witness ==
    /\ response.status = "already_empty"
    /\ ~Draining(response.cid)
    /\ resolved_tickets = {}

\* C10: no step other than the second block of reset_drains removes a ticket
\* id from resolved_tickets, and that block empties it.
C10_ResolvedOnlyGrows ==
    [][\/ resolved_tickets \subseteq resolved_tickets'
       \/ /\ \E t \in Threads : th[t].pc = "reset_tickets" /\ th'[t] = Idle
          /\ response'.status = "reset_ok"
          /\ resolved_tickets' = {}]_vars

\* a reconciliation run after both entities were dispatched: every ticket id
\* is resolved and the run reports no ticket
C10_Witness ==
    /\ response.status = "match_ok"
    /\ resolved_tickets = TicketIds
    /\ response.ids = << >>


\* ------------------------------------------------ properties: reconciler

\* the run has returned its result from a fetched snapshot
Returned == work.pc = "returned" /\ request.fetched

\* the response of the last run
Out == work.out[1]

\* the first record of ticket k in the snapshot
FirstOf(tks, k) == tks[CHOOSE i \in 1..Len(tks) :
                          /\ tks[i].id = k
                          /\ \A j \in 1..(i - 1) : tks[j].id # k]

\* the record says the ticket is completed
Completed(tk) == tk.resolved \/ tk.status \in {"resolved", "closed", "completed", "done"}

\* the results of the run that are for ticket k
ResultsFor(k) == {i \in 1..Len(Out.matches) : Out.matches[i].ticket_id = k}

\* C11: a run yields exactly one result for each distinct ticket id whose
\* first record is not completed and which is not in resolved_tickets, and
\* none for a completed or resolved one
C11_OneResultPerOpenTicket ==
    Returned =>
        /\ Out.status = "ok"
        /\ \A k \in {request.tickets_raw[i].id : i \in 1..Len(request.tickets_raw)} :
              Cardinality(ResultsFor(k)) =
                  IF \/ Completed(FirstOf(request.tickets_raw, k))
                     \/ k \in resolved_tickets
                  THEN 0 ELSE 1

\* the tickets of cauldron c on the given day that the run considers
TicketsOn(c, day) ==
    LET tks == RemainingTickets(request.tickets_raw, resolved_tickets)
    IN  {i \in 1..Len(tks) : tks[i].cauldron = c /\ tks[i].day = day}

\* the drain event e of cauldron c is listed as unmatched
Listed(c, e) ==
    \E i \in 1..Len(Out.unmatched_drains) :
        /\ Out.unmatched_drains[i].cauldron_id = c
        /\ Out.unmatched_drains[i].event = e

\* C12: every drain episode without a ticket of its cauldron on its own day
\* is listed in unmatched_drains, also when the cauldron has a matched
\* ticket on another day
C12_UnmatchedDrainsListed ==
    (Returned /\ Out.status = "ok") =>
        \A c \in Cauldrons :
            LET events == DrainEvents(SortSeries(request.data_raw[c]),
                                      fill_rate_per_min(c), 1)
            IN  \A n \in 1..Len(events) :
                    TicketsOn(c, DayOf(events[n].start)) = {} => Listed(c, events[n])

\* what the snapshots of SuspicionSpec let the reconciler calculate for the
\* ticket: the drop between the two samples (a drop below the segmenter's
\* floor is still found by summing the day's decreases)
Declared == request.tickets_raw[1].amount[1]

Calculated == request.data_raw["c1"][1].v - request.data_raw["c1"][2].v

\* C13 as stated: with a declared and a calculated amount the result is
\* suspicious exactly when their absolute difference exceeds 50 units and
\* exceeds 50% of the declared amount
C13_SuspiciousIffBothExceeded ==
    (Returned /\ Out.status = "ok" /\ Out.matches[1].calculated_amount # None) =>
        (Out.matches[1].suspicious <=>
            /\ Abs(Declared - Calculated) > 50 * Litre
            /\ 2 * Abs(Declared - Calculated) > Declared)

\* C13: with a declared and a calculated amount the result is suspicious
\* exactly when their difference, rounded to two decimals, exceeds in
\* absolute value 50 units and 50% of the declared amount, the latter taken
\* as at least one unit
C13_SuspiciousIffRoundedExceeded ==
    (Returned /\ Out.status = "ok" /\ Out.matches[1].calculated_amount # None) =>
        LET d == Round2(Declared - Calculated)
        IN  /\ Out.matches[1].difference = Some(d)
            /\ Out.matches[1].suspicious <=>
                   /\ Abs(d) > 50 * Litre
                   /\ 2 * Abs(d) > Max(Litre, Declared)

\* a declared amount 50.004 above the calculated one is compared as 50.00
C13_Witness ==
    /\ Returned
    /\ Declared = 60 * Litre + 4
    /\ Calculated = 10 * Litre
    /\ Out.matches[1].calculated_amount = Some(10 * Litre)
    /\ ~Out.matches[1].suspicious

FirstLevel == request.data_raw["c1"][1].v

LastLevel == request.data_raw["c1"][Len(request.data_raw["c1"])].v

\* C15: a strictly decreasing series of a cauldron without refill, within
\* the caps and above the noise floor, yields exactly one episode, whose
\* drained volume is the first level minus the last
C15_OneEpisodeFirstMinusLast ==
    (/\ Returned
     /\ FirstLevel - LastLevel > Litre
     /\ FirstLevel - LastLevel <= MAX_DRAIN_AMOUNT_L * Litre
     /\ Len(request.data_raw["c1"]) - 1 <= MAX_DRAIN_DURATION_MIN) =>
        /\ Len(Out.unmatched_drains) = 1
        /\ Out.unmatched_drains[1].event.drained = FirstLevel - LastLevel


\* ------------------------------------------------- properties: optimizer

\* the insertion loop has started
Planned == request.kind = "optimizer" /\ work.pc \in {"inserting", "returned"}

\* the tasks the insertion loop has handled
Handled == {work.plan.tasks[i] : i \in 1..(work.k - 1)}

\* the shortest travel time between two nodes of the network, Missing if
\* there is no path
Shortest(u, v) == Dijkstra(BuildGraph(request.edges), u)[v]

\* the network and the tasks of the scenario: c1 is due in 5 minutes and lies
\* 2 minutes from the market, c2 is due in b_due seconds and lies 50 minutes
\* from the market
Scenario(b_due) ==
    /\ request.time_to_full_seconds =
           [c \in {"c1", "c2", "c3"} |->
               IF c = "c1" THEN Some(300) ELSE IF c = "c2" THEN Some(b_due) ELSE None]
    /\ request.edges =
           {[from |-> market_id, to |-> "c1", travel_time_minutes |-> 2],
            [from |-> market_id, to |-> "c2", travel_time_minutes |-> 50]}

\* C16: in the scenario with an unloading time of 15 minutes one courier is
\* required when c2 is due in 100 minutes, and two, with c2 on a route of
\* its own, when c2 is due in 60 minutes
C16_ScenarioCouriers ==
    (request.kind = "optimizer" /\ work.pc = "returned" /\ unload_min = 15) =>
        /\ Scenario(6000) => work.required_couriers = Some(1)
        /\ Scenario(3600) =>
              /\ work.required_couriers = Some(2)
              /\ \E ri \in 1..Len(work.routes) : work.routes[ri].seq = <<"c2">>

\* the task cannot be reached from the market before its deadline
Unserviceable(task) ==
    \/ Shortest(market_id, task.id) = Missing
    \/ Shortest(market_id, task.id) > task.deadline

\* the routes that hold the node
RoutesWith(id) ==
    {ri \in 1..Len(work.routes) :
        \E pos \in 1..Len(work.routes[ri].seq) : work.routes[ri].seq[pos] = id}

\* C17: a handled task whose deadline lies before its shortest-path arrival,
\* or which cannot be reached, is on a route marked impossible that holds
\* only it and on no other route; a route marked impossible never holds a
\* second task
C17_ImpossibleAlone ==
    Planned =>
        /\ \A task \in Handled :
              Unserviceable(task) =>
                  \A ri \in RoutesWith(task.id) :
                      /\ work.routes[ri].impossible
                      /\ work.routes[ri].seq = <<task.id>>
        /\ \A task \in Handled :
              Unserviceable(task) => RoutesWith(task.id) # {}
        /\ \A ri \in 1..Len(work.routes) :
              work.routes[ri].impossible => Len(work.routes[ri].seq) = 1

\* a task was marked impossible and later tasks were put on other routes
C17_Witness ==
    /\ Planned
    /\ work.pc = "returned"
    /\ \E ri \in 1..Len(work.routes) :
           /\ work.routes[ri].impossible
           /\ \E rj \in (ri + 1)..Len(work.routes) : ~work.routes[rj].impossible
           /\ \E rj \in 1..Len(work.routes) : Len(work.routes[rj].seq) = 2

RECURSIVE PathTime(_, _)
\* the time at which a courier that leaves the market at 0 and travels from
\* stop to stop reaches stop number i of seq
PathTime(seq, i) ==
    IF i = 1 THEN Shortest(market_id, seq[1])
    ELSE PathTime(seq, i - 1) + Shortest(seq[i - 1], seq[i])

\* C18: after every insertion step every route not marked impossible is
\* feasible: every leg exists, every stop is reached by its deadline, and the
\* stored arrivals are those of the committed sequence
C18_RoutesFeasible ==
    Planned =>
        \A ri \in 1..Len(work.routes) :
            LET r == work.routes[ri]
            IN  ~r.impossible =>
                    /\ Len(r.arrivals) = Len(r.seq)
                    /\ Shortest(market_id, r.seq[1]) # Missing
                    /\ \A i \in 2..Len(r.seq) : Shortest(r.seq[i - 1], r.seq[i]) # Missing
                    /\ \A i \in 1..Len(r.seq) :
                          /\ r.arrivals[i] = PathTime(r.seq, i)
                          /\ r.arrivals[i] <= DeadlineOf(work.plan, r.seq[i])

\* in the middle of the loop a route holds two stops
C18_Witness ==
    /\ Planned
    /\ work.pc = "inserting"
    /\ work.k <= Len(work.plan.tasks)
    /\ \E ri \in 1..Len(work.routes) :
           /\ ~work.routes[ri].impossible
           /\ Len(work.routes[ri].seq) >= 2

\* the places of the routes that hold the node
PlacesOf(id) ==
    {pl \in (1..Len(work.routes)) \X (1..Len(Sites)) :
        /\ pl[2] <= Len(work.routes[pl[1]].seq)
        /\ work.routes[pl[1]].seq[pl[2]] = id}

\* C19: every handled task is at exactly one place of the routes, every other
\* node at none; in the response every task is at exactly one place
C19_EveryTaskOnce ==
    Planned =>
        /\ \A task \in Handled : Cardinality(PlacesOf(task.id)) = 1
        /\ \A id \in Nodes \ {task.id : task \in Handled} : PlacesOf(id) = {}
        /\ work.pc = "returned" =>
               Handled = {work.plan.tasks[i] : i \in 1..Len(work.plan.tasks)}

\* three tasks were routed: one impossible, the two others on one route
C19_Witness ==
    /\ Planned
    /\ work.pc = "returned"
    /\ Len(work.plan.tasks) = 3
    /\ Len(work.routes) = 2
    /\ \E ri \in 1..2 : work.routes[ri].impossible

\* no courier can serve task x and then task y
Unshareable(x, y) ==
    \/ Shortest(x.id, y.id) = Missing
    \/ Shortest(market_id, x.id) + Shortest(x.id, y.id) > y.deadline

\* every task can be served alone and no two in either order
AllAlone ==
    LET tasks == {work.plan.tasks[i] : i \in 1..Len(work.plan.tasks)}
    IN  /\ \A x \in tasks : ~Unserviceable(x)
        /\ \A x, y \in tasks : x # y => Unshareable(x, y)

\* C20: when every task can be served alone and no two tasks can share a
\* route in either order, required_couriers is the number of tasks and every
\* task has a route of its own that is not marked impossible
C20_OneCourierEach ==
    (Planned /\ work.pc = "returned" /\ AllAlone) =>
        /\ work.required_couriers = Some(Len(work.plan.tasks))
        /\ \A ri \in 1..Len(work.routes) :
              /\ Len(work.routes[ri].seq) = 1
              /\ ~work.routes[ri].impossible

\* three such tasks got three couriers
C20_Witness ==
    /\ Planned
    /\ work.pc = "returned"
    /\ AllAlone
    /\ Len(work.plan.tasks) = 3
    /\ work.required_couriers = Some(3)

\* ------------------------------------------- properties: rate estimator

\* writer w has finished a recompute
Refreshed(w) ==
    request.kind = "rates" /\ work.w[w].pc = "idle" /\ work.w[w].runs > 0

\* the records the recompute of writer w was delivered
Delivered(w) == IF work.w[w].raw = None THEN << >> ELSE work.w[w].raw[1]

\* the positions of the delivered records that hold a level of cauldron c
ValidSamples(w, c) ==
    {i \in 1..Len(Delivered(w)) : Delivered(w)[i].cauldron_levels[c] # None}

\* C21: a cauldron with at most one valid sample has no entry in the rate map
\* of a recompute, and the recompute leaves its stored rates as they were
C21_FewSamplesNoEntry ==
    Refreshed("refresher") =>
        \A c \in Cauldrons :
            Cardinality(ValidSamples("refresher", c)) <= 1 =>
                /\ c \notin DOMAIN work.w["refresher"].computed
                /\ work.table[c] = FallbackRates

\* the orders in which the records of writer w could have been delivered
Reorderings(w) ==
    {[i \in 1..Len(Delivered(w)) |-> Delivered(w)[p[i]]] :
        p \in Permutations(1..Len(Delivered(w)))}

\* C22: the rate map of a recompute is the same for every order in which the
\* same records are delivered
C22_OrderIndependent ==
    Refreshed("refresher") =>
        \A h \in Reorderings("refresher") :
            _compute_rates(Some(h)) = work.w["refresher"].computed

\* the rates a cauldron may be seen with: those of startup and those of a
\* recompute over one of the histories
ConsistentRates(c) ==
    {FallbackRates} \cup
    {_compute_rates(raw)[c] : raw \in {x \in request.history : c \in DOMAIN _compute_rates(x)}}

\* C23: a reader never sees a cauldron with the fill rate of one recompute and
\* the drain rate of another (or of none)
C23_RatesReadConsistent ==
    (request.kind = "rates" /\ work.seen # None) =>
        work.seen[1].rates \in ConsistentRates(work.seen[1].id)

\* the levels of cauldron c in the order of delivery
LevelsOf(w, c) == PerSeries(Delivered(w), c)

\* C27: a cauldron whose consecutive level deltas are all non-negative gets
\* drain rate 0, one whose deltas are all non-positive gets fill rate 0, and
\* no rate is ever negative
C27_RatesBySign ==
    (request.kind = "rates" /\ work.w["refresher"].runs > 0) =>
        \A c \in DOMAIN work.w["refresher"].computed :
            LET s == LevelsOf("refresher", c)
                r == work.w["refresher"].computed[c]
            IN  /\ (\A i \in 1..(Len(s) - 1) : s[i + 1].v >= s[i].v) => r.drain_rate_per_min = 0
                /\ (\A i \in 1..(Len(s) - 1) : s[i + 1].v <= s[i].v) => r.fill_rate_per_min = 0
                /\ r.fill_rate_per_min >= 0
                /\ r.drain_rate_per_min >= 0

\* three samples in time order with rising levels gave a fill rate and no
\* drain rate
C27_Witness ==
    /\ Refreshed("refresher")
    /\ "c1" \in DOMAIN work.w["refresher"].computed
    /\ LET s == LevelsOf("refresher", "c1")
       IN  /\ Len(s) = 3
           /\ s[1].t < s[2].t /\ s[2].t < s[3].t
           /\ s[1].v <= s[2].v /\ s[2].v < s[3].v
    /\ work.w["refresher"].computed["c1"].fill_rate_per_min > 0
    /\ work.w["refresher"].computed["c1"].drain_rate_per_min = 0

\* ------------------------------------------------- properties: status

\* C24: a status read whose upstream fetch fails returns a result, not an
\* error (the only step of a status read that returns at once is the one
\* whose fetch failed)
C24_StatusDegrades ==
    [][(th' = th /\ response'.op = "status") => response'.status = "status_ok"]_vars

\* C25: a step of a scheduling run leaves the registry of drains as it is and
\* takes no id out of resolved_tickets
C25_RunsLeaveSharedState ==
    [][StepOf("optimize") =>
        /\ active_drains' = active_drains
        /\ resolved_tickets \subseteq resolved_tickets']_vars

\* C28: the forecast that a status read reports for a Draining cauldron is the
\* one made from the level the same record reports
C28_ForecastFromAdjustedLevel ==
    (request.kind = "status" /\ work.pc = "returned" /\ work.status_code = 200) =>
        \A i \in 1..Len(work.status_list) :
            LET s == work.status_list[i]
            IN  s.is_draining =>
                    s.time_to_full_seconds =
                        time_to_full_seconds(
                            time_to_full_min(s.current_level, request.static.max_volume,
                                             request.static.fill_rate_per_min))

\* --------------------------------------------- properties: segmenter caps

RECURSIVE DrainedSum(_, _)
\* the drained volumes of the first n listed episodes, added up
DrainedSum(listed, n) ==
    IF n = 0 THEN 0 ELSE DrainedSum(listed, n - 1) + listed[n].event.drained

\* C30: the episodes of a strictly decreasing series whose steps all exceed
\* half a litre are in time order and do not overlap, and their drained
\* volumes add up to the first level minus the last, also when a cap splits
\* the drain
C30_EpisodesPartitionDrain ==
    Returned =>
        LET listed == Out.unmatched_drains
        IN  /\ \A i \in 1..Len(listed) : listed[i].event.start < listed[i].event.end
            /\ \A i \in 1..(Len(listed) - 1) :
                   listed[i].event.end <= listed[i + 1].event.start
            /\ DrainedSum(listed, Len(listed)) = FirstLevel - LastLevel


\* ------------------------------------------------- properties: the locks

\* the locks thread t holds
Held(t) ==
    {l \in {"drains_lock", "resolved_tickets_lock"} :
        (IF l = "drains_lock" THEN drains_lock ELSE resolved_tickets_lock) = t}

\* C26: no thread holds drains_lock or resolved_tickets_lock while an
\* upstream request of its own is in flight
C26_NoLockDuringRequest ==
    \A t \in Threads : InFlight(t) => Held(t) = {}

\* the thread that holds the lock thread t is blocked at, NoThread when t is
\* not blocked
BlockedBy(t) ==
    IF th[t].pc \in {"status_loop", "lock", "reset_drains"} /\ drains_lock \notin {t, NoThread}
    THEN drains_lock
    ELSE IF /\ th[t].pc \in {"resolve", "match_lock", "reset_tickets"}
            /\ resolved_tickets_lock \notin {t, NoThread}
    THEN resolved_tickets_lock
    ELSE NoThread

\* C29: no thread holds both locks, a thread whose handler has returned
\* holds none, and no thread is blocked by a thread that is itself blocked
C29_LocksNeverNested ==
    \A t \in Threads :
        /\ Cardinality(Held(t)) <= 1
        /\ th[t].pc = "idle" => Held(t) = {}
        /\ BlockedBy(t) # NoThread => BlockedBy(BlockedBy(t)) = NoThread

\* one thread is inside a drains_lock block whose milestone log is about to
\* raise while the other holds resolved_tickets_lock and a third handler
\* would have to wait
C29_Witness ==
    \E t, u \in Threads :
        /\ t # u
        /\ drains_lock = t
        /\ th[t].pc = "status_loop"
        /\ LET d == active_drains[CauldronOrder[th[t].idx]]
           IN  d # NoDrain /\ Remaining(d, now) > 0 /\ MilestoneLogRaises(d, now)
        /\ resolved_tickets_lock = u

====
